---- MODULE Spec2Model ----
(***************************************************************************)
(* SlackLiner: a relay of post-message and reaction requests, arriving     *)
(* over HTTP (/message) or popped from two Redis lists, to the Slack API,  *)
(* with an optional deletion notice published to TimeBomb.                 *)
(*                                                                         *)
(* Processes: main (start-up, cancellation, exit), the message loop        *)
(* (processMessages), the reaction loop (processReactions) and one HTTP    *)
(* handler goroutine (handlePostMessage).  A process yields only where the *)
(* code blocks: at the select at the top of a loop, in BLPOP, in the       *)
(* back-off sleep, in a Slack API call and in the Redis PUBLISH.           *)
(***************************************************************************)
EXTENDS Integers, Sequences, FiniteSets, TLC

\* Requests the environment keeps in the service at one time (queued items
\* plus requests being handled).
MaxInFlight == 1

\* Items pending in the message list at one time, where the list is looked at
\* on its own.
MaxQueued == 2

(***************************************************************************)
(* Values                                                                  *)
(***************************************************************************)
\* An optional value: <<>> is absent / nil, <<v>> is present.
None == <<>>

Some(v) == <<v>>

Opt(S) == {None} \cup {Some(v) : v \in S}

OrElse(o, zero) == IF o = None THEN zero ELSE o[1]

Nil == "nil"

ErrInvalidMessage == "invalid message: channel and either text or blocks are required"

ErrInvalidTTL == "invalid message: ttl must be non-negative"

\* The error json.Unmarshal returns for a blocks payload that is no block array.
ErrUnmarshalBlocks == "json: cannot unmarshal blocks"

\* Errors of the Slack API.
SlackErrors == {"channel_not_found", "ratelimited"}

\* Errors of the Redis PUBLISH.
PublishErrors == {"redis: connection refused"}

\* The three validation log lines of sendSlackMessageWithResponse; they are what
\* tells the failure kinds MissingChannel, MissingContent and InvalidTTL apart.
LogChannelRequired == "Invalid message: channel is required"

LogContentRequired == "Invalid message: either text or blocks are required"

LogTTLNegative == "Invalid message: ttl must be non-negative if provided"

LogReactionFields == "Invalid reaction message: reaction, channel, and ts are required"

NoLog == ""

StatusOK == 200

StatusBadRequest == 400

StatusMethodNotAllowed == 405

StatusInternalServerError == 500

\* TIMEBOMB_REDIS_CHANNEL, the notification target.
timeBombChannel == "timebomb-messages"

(***************************************************************************)
(* Inputs: the JSON texts producers push and HTTP clients send.  A JSON    *)
(* object is given by its members, each present or absent; a blocks        *)
(* payload is the token sequence of its raw bytes.                         *)
(***************************************************************************)
Channels == {"#general"}

Texts == {"hi"}

BlockPayloads == {<<"\"oops\"">>, <<"[", "]">>, <<"[", "section", "]">>}

ThreadTSs == {"1712.0001"}

Metadatas == {[event_type |-> "alert_created", event_payload |-> [severity |-> "high"]]}

TTLs == {-1, 0, 300}

MessageObjects ==
    [channel : Opt(Channels), text : Opt(Texts), blocks : Opt(BlockPayloads),
     thread_ts : Opt(ThreadTSs), metadata : Opt(Metadatas), ttl : Opt(TTLs)]

EmptyMessageObject ==
    [channel |-> None, text |-> None, blocks |-> None, thread_ts |-> None,
     metadata |-> None, ttl |-> None]

\* A text that is no JSON object of the expected shape, and the object texts.
RawMessages ==
    {[wellFormed |-> FALSE, obj |-> EmptyMessageObject]}
        \cup {[wellFormed |-> TRUE, obj |-> o] : o \in MessageObjects}

Reactions == {"thumbsup"}

ItemChannels == {"C1"}

ItemTimestamps == {"1.1"}

ReactionObjects ==
    [reaction : Opt(Reactions), channel : Opt(ItemChannels), ts : Opt(ItemTimestamps),
     remove : Opt(BOOLEAN)]

EmptyReactionObject == [reaction |-> None, channel |-> None, ts |-> None, remove |-> None]

RawReactions ==
    {[wellFormed |-> FALSE, obj |-> EmptyReactionObject]}
        \cup {[wellFormed |-> TRUE, obj |-> o] : o \in ReactionObjects}

Methods == {"POST", "GET"}

\* What chat.postMessage answers on success: the channel id and the timestamp.
PlatformReplies == {[channelID |-> "C0123456789", timestamp |-> "1700000000.000100"],
                    [channelID |-> "C0987654321", timestamp |-> "1700000000.000200"]}

(***************************************************************************)
(* types.go and the decoding of the payloads                               *)
(***************************************************************************)
ZeroSlackMessage ==
    [Channel |-> "", Text |-> "", Blocks |-> <<>>, ThreadTS |-> "", Metadata |-> None,
     TTL |-> 0]

\* MessageMetadata, from its JSON members.
DecodeMetadata(m) == [EventType |-> m.event_type, EventPayload |-> m.event_payload]

\* A decoding that lets a malformed text pass as the zero message.
UnmarshalSlackMessageLenient(raw) ==
    [err |-> FALSE,
     msg |-> IF ~raw.wellFormed THEN ZeroSlackMessage
             ELSE [Channel  |-> OrElse(raw.obj.channel, ""),
                   Text     |-> OrElse(raw.obj.text, ""),
                   Blocks   |-> OrElse(raw.obj.blocks, <<>>),
                   ThreadTS |-> OrElse(raw.obj.thread_ts, ""),
                   Metadata |-> IF raw.obj.metadata = None THEN None
                                ELSE Some(DecodeMetadata(raw.obj.metadata[1])),
                   TTL      |-> OrElse(raw.obj.ttl, 0)]]

\* json.Unmarshal into a SlackMessage: absent members keep the zero value.
UnmarshalSlackMessage(raw) ==
    IF ~raw.wellFormed
    THEN [err |-> TRUE, msg |-> ZeroSlackMessage]
    ELSE [err |-> FALSE,
          msg |-> [Channel  |-> OrElse(raw.obj.channel, ""),
                   Text     |-> OrElse(raw.obj.text, ""),
                   Blocks   |-> OrElse(raw.obj.blocks, <<>>),
                   ThreadTS |-> OrElse(raw.obj.thread_ts, ""),
                   Metadata |-> IF raw.obj.metadata = None THEN None
                                ELSE Some(DecodeMetadata(raw.obj.metadata[1])),
                   TTL      |-> OrElse(raw.obj.ttl, 0)]]

ZeroReactionMessage == [Reaction |-> "", Channel |-> "", TS |-> "", Remove |-> FALSE]

\* The remove member of a reaction payload (default false).
RemoveField(obj) == OrElse(obj.remove, FALSE)

\* json.Unmarshal into a ReactionMessage.
UnmarshalReactionMessage(raw) ==
    IF ~raw.wellFormed
    THEN [err |-> TRUE, msg |-> ZeroReactionMessage]
    ELSE [err |-> FALSE,
          msg |-> [Reaction |-> OrElse(raw.obj.reaction, ""),
                   Channel  |-> OrElse(raw.obj.channel, ""),
                   TS       |-> OrElse(raw.obj.ts, ""),
                   Remove   |-> RemoveField(raw.obj)]]

\* json.Marshal of a TimeBombMessage: the members channel, ts and ttl.  It cannot
\* fail for two strings and an int, so the error branch of the code is dead.
MarshalTimeBombMessage(tbMsg) ==
    [channel |-> tbMsg.Channel, ts |-> tbMsg.TS, ttl |-> tbMsg.TTL]

\* json.NewEncoder(w).Encode of a MessageResponse.
EncodeMessageResponse(response) == <<"channel", response.Channel, "ts", response.TS>>


(***************************************************************************)
(* slack.go: sendSlackMessageWithResponse and addSlackReaction, cut at the *)
(* calls they block in                                                     *)
(***************************************************************************)
\* ValidateMessage with the TTL check moved to the front.
ValidateMessageTTLFirst(msg) ==
    IF msg.TTL < 0
    THEN [err |-> ErrInvalidTTL, log |-> LogTTLNegative]
    ELSE IF msg.Channel = ""
    THEN [err |-> ErrInvalidMessage, log |-> LogChannelRequired]
    ELSE IF msg.Text = "" /\ Len(msg.Blocks) = 0
    THEN [err |-> ErrInvalidMessage, log |-> LogContentRequired]
    ELSE [err |-> Nil, log |-> NoLog]

\* ValidateMessage with the content check left out.
ValidateMessageNoContent(msg) ==
    IF msg.Channel = ""
    THEN [err |-> ErrInvalidMessage, log |-> LogChannelRequired]
    ELSE IF msg.TTL < 0
    THEN [err |-> ErrInvalidTTL, log |-> LogTTLNegative]
    ELSE [err |-> Nil, log |-> NoLog]

\* ValidateMessage with the TTL check left out.
ValidateMessageNoTTL(msg) ==
    IF msg.Channel = ""
    THEN [err |-> ErrInvalidMessage, log |-> LogChannelRequired]
    ELSE IF msg.Text = "" /\ Len(msg.Blocks) = 0
    THEN [err |-> ErrInvalidMessage, log |-> LogContentRequired]
    ELSE [err |-> Nil, log |-> NoLog]

\* The checks at the head of sendSlackMessageWithResponse, in the order of the
\* code: the error returned and the line logged (Nil: the message is accepted).
ValidateMessage(msg) ==
    IF msg.Channel = ""
    THEN [err |-> ErrInvalidMessage, log |-> LogChannelRequired]
    ELSE IF msg.Text = "" /\ Len(msg.Blocks) = 0
    THEN [err |-> ErrInvalidMessage, log |-> LogContentRequired]
    ELSE IF msg.TTL < 0
    THEN [err |-> ErrInvalidTTL, log |-> LogTTLNegative]
    ELSE [err |-> Nil, log |-> NoLog]

\* json.Unmarshal(msg.Blocks, &blocks): a block array yields its blocks, any
\* other payload an error.
UnmarshalBlocks(b) ==
    IF Len(b) >= 2 /\ b[1] = "[" /\ b[Len(b)] = "]"
    THEN [err |-> Nil, BlockSet |-> SubSeq(b, 2, Len(b) - 1)]
    ELSE [err |-> ErrUnmarshalBlocks, BlockSet |-> <<>>]

\* MsgOptions that never sets the thread timestamp.
MsgOptionsNoThread(msg, BlockSet) ==
    [DisableLinkUnfurl |-> TRUE,
     Text     |-> IF msg.Text # "" THEN Some(msg.Text) ELSE None,
     Blocks   |-> IF Len(msg.Blocks) > 0 /\ Len(BlockSet) > 0 THEN Some(BlockSet) ELSE None,
     TS       |-> None,
     Metadata |-> IF msg.Metadata # None
                  THEN Some([EventType    |-> msg.Metadata[1].EventType,
                             EventPayload |-> msg.Metadata[1].EventPayload])
                  ELSE None]

\* The options handed to PostMessage: link unfurling disabled, then text, blocks,
\* thread timestamp and metadata, each only if provided.
MsgOptions(msg, BlockSet) ==
    [DisableLinkUnfurl |-> TRUE,
     Text     |-> IF msg.Text # "" THEN Some(msg.Text) ELSE None,
     Blocks   |-> IF Len(msg.Blocks) > 0 /\ Len(BlockSet) > 0 THEN Some(BlockSet) ELSE None,
     TS       |-> IF msg.ThreadTS # "" THEN Some(msg.ThreadTS) ELSE None,
     Metadata |-> IF msg.Metadata # None
                  THEN Some([EventType    |-> msg.Metadata[1].EventType,
                             EventPayload |-> msg.Metadata[1].EventPayload])
                  ELSE None]

\* The local state of one run of handlePostMessage or of one iteration of
\* processMessages: whether the payload was decoded, the message, the validation
\* line logged, the PostMessage calls made, the PUBLISH calls made, the error of the
\* last PUBLISH and the values sendSlackMessageWithResponse returned.
IdleSend ==
    [decoded |-> FALSE, msg |-> ZeroSlackMessage, log |-> NoLog, calls |-> <<>>, reply |-> None,
     publishes |-> <<>>, pubErr |-> None, ret |-> None]

\* Return that hands back the channel of the request for the channel id.
ReturnRequestedChannel(s, channelID, timestamp, err) ==
    [s EXCEPT !.ret = Some([channelID |-> IF err = Nil THEN s.msg.Channel ELSE channelID,
                            timestamp |-> timestamp, err |-> err])]

\* The values sendSlackMessageWithResponse returns.
Return(s, channelID, timestamp, err) ==
    [s EXCEPT !.ret = Some([channelID |-> channelID, timestamp |-> timestamp, err |-> err])]

\* SendCall that logs a validation failure and posts all the same.
SendCallUnchecked(msg) ==
    LET s == [IdleSend EXCEPT !.decoded = TRUE, !.msg = msg,
                              !.log = ValidateMessage(msg).log]
    IN  [s EXCEPT !.calls = <<[channel |-> msg.Channel,
                               options |-> MsgOptions(msg, UnmarshalBlocks(msg.Blocks).BlockSet)]>>]

\* SendCall that drops the error of the blocks payload and posts without blocks.
SendCallIgnoreBlocksErr(msg) ==
    LET s == [IdleSend EXCEPT !.decoded = TRUE, !.msg = msg]
        v == ValidateMessage(msg)
    IN  IF v.err # Nil
        THEN Return([s EXCEPT !.log = v.log], "", "", v.err)
        ELSE [s EXCEPT !.calls = <<[channel |-> msg.Channel,
                                    options |-> MsgOptions(msg, UnmarshalBlocks(msg.Blocks).BlockSet)]>>]

\* sendSlackMessageWithResponse up to its first blocking call: it returns an
\* error, or has called PostMessage and waits for the answer.
SendCall(msg) ==
    LET s == [IdleSend EXCEPT !.decoded = TRUE, !.msg = msg]
        v == ValidateMessage(msg)
        blocks == UnmarshalBlocks(msg.Blocks)
    IN  IF v.err # Nil
        THEN Return([s EXCEPT !.log = v.log], "", "", v.err)
        ELSE IF Len(msg.Blocks) > 0 /\ blocks.err # Nil
        THEN Return(s, "", "", blocks.err)
        ELSE [s EXCEPT !.calls = <<[channel |-> msg.Channel,
                                    options |-> MsgOptions(msg, blocks.BlockSet)]>>]

\* HasTTL with >= for >.
HasTTLOrZero(msg) == msg.TTL >= 0

\* Whether a deletion notice follows a successful post.
HasTTL(msg) == msg.TTL > 0

\* TimeBombFor keyed on the channel of the request.
TimeBombForRequested(msg, channelID, timestamp) ==
    [Channel |-> msg.Channel, TS |-> timestamp, TTL |-> msg.TTL]

\* The TimeBombMessage of a posted message.
TimeBombFor(msg, channelID, timestamp) ==
    [Channel |-> channelID, TS |-> timestamp, TTL |-> msg.TTL]

\* SendPosted that calls PostMessage a second time after an error.
SendPostedRetry(s, err, reply) ==
    IF err # Nil
    THEN IF Len(s.calls) < 2
         THEN [s EXCEPT !.calls = Append(@, s.calls[1])]
         ELSE Return(s, "", "", err)
    ELSE LET t == [s EXCEPT !.reply = Some(reply)]
         IN  IF HasTTL(s.msg)
             THEN [t EXCEPT !.publishes =
                      Append(@, [channel |-> timeBombChannel,
                                 payload |-> MarshalTimeBombMessage(
                                     TimeBombFor(s.msg, reply.channelID, reply.timestamp))])]
             ELSE Return(t, reply.channelID, reply.timestamp, Nil)

\* SendPosted that publishes the notice before it looks at the error.
SendPostedPublishFirst(s, err, reply) ==
    IF HasTTL(s.msg)
    THEN [s EXCEPT !.publishes =
             Append(@, [channel |-> timeBombChannel,
                        payload |-> MarshalTimeBombMessage(
                            TimeBombFor(s.msg, reply.channelID, reply.timestamp))])]
    ELSE IF err # Nil
    THEN Return(s, "", "", err)
    ELSE Return([s EXCEPT !.reply = Some(reply)], reply.channelID, reply.timestamp, Nil)

\* From the answer of PostMessage to the next blocking call: an error is
\* returned; with a TTL the notice is marshalled and PUBLISH called; else the
\* platform's channel and timestamp are returned.
SendPosted(s, err, reply) ==
    IF err # Nil
    THEN Return(s, "", "", err)
    ELSE LET t == [s EXCEPT !.reply = Some(reply)]
         IN  IF HasTTL(s.msg)
             THEN [t EXCEPT !.publishes =
                      Append(@, [channel |-> timeBombChannel,
                                 payload |-> MarshalTimeBombMessage(
                                     TimeBombFor(s.msg, reply.channelID, reply.timestamp))])]
             ELSE Return(t, reply.channelID, reply.timestamp, Nil)

\* SendPublished that publishes again after a failure.
SendPublishedRetry(s, err) ==
    IF err # Nil /\ Len(s.publishes) < 2
    THEN [s EXCEPT !.pubErr = Some(err), !.publishes = Append(@, s.publishes[1])]
    ELSE Return([s EXCEPT !.pubErr = Some(err)], s.reply[1].channelID,
                s.reply[1].timestamp, Nil)

\* SendPublished that returns the error of PUBLISH to its caller.
SendPublishedReportsError(s, err) ==
    IF err # Nil
    THEN Return([s EXCEPT !.pubErr = Some(err)], "", "", err)
    ELSE Return([s EXCEPT !.pubErr = Some(err)], s.reply[1].channelID,
                s.reply[1].timestamp, Nil)

\* From the answer of PUBLISH to the return: the outcome is only logged.
SendPublished(s, err) ==
    Return([s EXCEPT !.pubErr = Some(err)], s.reply[1].channelID, s.reply[1].timestamp, Nil)

\* The local state of one iteration of processReactions.
IdleReact ==
    [decoded |-> FALSE, msg |-> ZeroReactionMessage, log |-> NoLog, calls |-> <<>>, returned |-> FALSE,
     err |-> None]

\* ValidateReaction that rejects only when all three fields are empty.
ValidateReactionAll(msg) ==
    IF msg.Reaction = "" /\ msg.Channel = "" /\ msg.TS = "" THEN LogReactionFields ELSE NoLog

\* The check at the head of addSlackReaction.
ValidateReaction(msg) ==
    IF msg.Reaction = "" \/ msg.Channel = "" \/ msg.TS = "" THEN LogReactionFields ELSE NoLog

\* ReactionCall with the two branches of the remove flag exchanged.
ReactionCallInverted(msg) ==
    [op |-> IF msg.Remove THEN "AddReaction" ELSE "RemoveReaction",
     name |-> msg.Reaction,
     item |-> [Channel |-> msg.Channel, Timestamp |-> msg.TS]]

\* ReactionCall with the two fields of the ItemRef exchanged.
ReactionCallItemSwapped(msg) ==
    [op |-> IF msg.Remove THEN "RemoveReaction" ELSE "AddReaction",
     name |-> msg.Reaction,
     item |-> [Channel |-> msg.TS, Timestamp |-> msg.Channel]]

\* The Slack call addSlackReaction chooses.
ReactionCall(msg) ==
    [op |-> IF msg.Remove THEN "RemoveReaction" ELSE "AddReaction",
     name |-> msg.Reaction,
     item |-> [Channel |-> msg.Channel, Timestamp |-> msg.TS]]

\* addSlackReaction up to its blocking call.
ReactCall(msg) ==
    LET r == [IdleReact EXCEPT !.decoded = TRUE, !.msg = msg]
    IN  IF ValidateReaction(msg) # NoLog
        THEN [r EXCEPT !.log = ValidateReaction(msg), !.returned = TRUE]
        ELSE [r EXCEPT !.calls = <<ReactionCall(msg)>>]

(***************************************************************************)
(* http.go: the response handlePostMessage writes                          *)
(***************************************************************************)
HTTPError(text, code) == [status |-> code, contentType |-> "text/plain", body |-> <<text>>]

\* Respond that takes only ErrInvalidMessage for a client error.
RespondTTLAsServerError(ret) ==
    IF ret.err # Nil
    THEN IF ret.err = ErrInvalidMessage
         THEN HTTPError(ret.err, StatusBadRequest)
         ELSE HTTPError("Failed to send message to Slack", StatusInternalServerError)
    ELSE [status |-> StatusOK, contentType |-> "application/json",
          body |-> EncodeMessageResponse([Channel |-> ret.channelID, TS |-> ret.timestamp])]

\* Respond that passes the text of every error on to the client.
RespondWithCause(ret) ==
    IF ret.err # Nil
    THEN IF ret.err = ErrInvalidMessage \/ ret.err = ErrInvalidTTL
         THEN HTTPError(ret.err, StatusBadRequest)
         ELSE HTTPError(ret.err, StatusInternalServerError)
    ELSE [status |-> StatusOK, contentType |-> "application/json",
          body |-> EncodeMessageResponse([Channel |-> ret.channelID, TS |-> ret.timestamp])]

\* The response to what sendSlackMessageWithResponse returned.
Respond(ret) ==
    IF ret.err # Nil
    THEN IF ret.err = ErrInvalidMessage \/ ret.err = ErrInvalidTTL
         THEN HTTPError(ret.err, StatusBadRequest)
         ELSE HTTPError("Failed to send message to Slack", StatusInternalServerError)
    ELSE [status |-> StatusOK, contentType |-> "application/json",
          body |-> EncodeMessageResponse([Channel |-> ret.channelID, TS |-> ret.timestamp])]

(***************************************************************************)
(* State                                                                   *)
(***************************************************************************)
VARIABLES
    main,        \* position of main: "starting", "fatal", "serving", "cancelled", "exited"
    listening,   \* the HTTP server accepts requests
    msgQueue,    \* the Redis list REDIS_LIST_KEY: its pending items
    reactQueue,  \* the Redis list REDIS_REACTION_LIST_KEY: its pending items
    pc,          \* position of the two loops and of the HTTP handler
    send,        \* local state of the message loop and of the HTTP handler
    react,       \* local state of the reaction loop
    response,    \* what the HTTP handler wrote to its ResponseWriter
    request,     \* the request handlePostMessage serves: its method, and whether
                 \* its body is the JSON text of an object
    health,      \* what the /health handler wrote to its ResponseWriter
    codec        \* a value on its way through json.Marshal and json.Unmarshal

vars == <<main, listening, msgQueue, reactQueue, pc, send, react, response, request, health, codec>>

Loops == {"msg", "react"}

Senders == {"msg", "http"}

Procs == {"msg", "react", "http"}

\* ctx.Done() is closed.
ctxDone == main \in {"cancelled", "exited"}

\* The goroutines run from the go statements of main until the process exits.
Running == main \in {"serving", "cancelled"}

\* The positions in which a process holds a request.
Busy(p) == pc[p] \in {"PostMessage", "Publish", "Reaction", "Continue", "Responded"}

InFlight ==
    Len(msgQueue) + Len(reactQueue) + Cardinality({p \in Procs : Busy(p)})
        + (IF health = None THEN 0 ELSE 1)

Init ==
    /\ main = "starting"
    /\ listening = FALSE
    /\ msgQueue = <<>>
    /\ reactQueue = <<>>
    /\ pc = [p \in Procs |-> "NotStarted"]
    /\ send = [p \in Senders |-> IdleSend]
    /\ react = IdleReact
    /\ response = None
    /\ request = None
    /\ health = None
    /\ codec = None

(***************************************************************************)
(* main.go                                                                 *)
(***************************************************************************)
\* The checks without the authentication test.
StartupOKWithoutAuth(token, ping, auth) == token /\ ping

\* The three checks of main before anything is started: SLACK_BOT_TOKEN is
\* set, the Redis ping succeeds and the Slack authentication test succeeds.
StartupOK(token, ping, auth) == token /\ ping /\ auth

\* main up to the go statements, for given outcomes of the three checks; any
\* failure is fatal.
StartWith(token, ping, auth) ==
    /\ main = "starting"
    /\ IF StartupOK(token, ping, auth)
       THEN /\ main' = "serving"
            /\ listening' = TRUE
            /\ pc' = [p \in Procs |-> IF p \in Loops THEN "Select" ELSE "Idle"]
       ELSE /\ main' = "fatal"
            /\ UNCHANGED <<listening, pc>>
    /\ UNCHANGED <<msgQueue, reactQueue, send, react, response, request, health, codec>>

Start == \E token \in BOOLEAN, ping \in BOOLEAN, auth \in BOOLEAN : StartWith(token, ping, auth)

\* The shutdown signal arrives: cancel().
Cancel ==
    /\ main = "serving"
    /\ main' = "cancelled"
    /\ UNCHANGED <<listening, msgQueue, reactQueue, pc, send, react, response, request, health, codec>>

\* The goroutine of startHTTPServer that waits for ctx.Done(): server.Shutdown.
Shutdown ==
    /\ main = "cancelled"
    /\ listening
    /\ listening' = FALSE
    /\ UNCHANGED <<main, msgQueue, reactQueue, pc, send, react, response, request, health, codec>>

\* main returns after its one-second sleep: the process ends, and with it the
\* goroutines and their locals; the Redis lists stay.
Exit ==
    /\ main = "cancelled"
    /\ main' = "exited"
    /\ listening' = FALSE
    /\ pc' = [p \in Procs |-> "Exited"]
    /\ send' = [p \in Senders |-> IdleSend]
    /\ react' = IdleReact
    /\ response' = None
    /\ request' = None
    /\ health' = None
    /\ UNCHANGED <<msgQueue, reactQueue, codec>>

(***************************************************************************)
(* The producers.  The service never looks at a list item before BLPOP     *)
(* hands it over, so a list holds opaque items and the text of an item is  *)
(* drawn when it is popped.                                                *)
(***************************************************************************)
Item == "item"

PushMessage ==
    /\ main \in {"starting", "serving", "cancelled"}
    /\ InFlight < MaxInFlight
    /\ msgQueue' = Append(msgQueue, Item)
    /\ UNCHANGED <<main, listening, reactQueue, pc, send, react, response, request, health, codec>>

PushReaction ==
    /\ main \in {"starting", "serving", "cancelled"}
    /\ InFlight < MaxInFlight
    /\ reactQueue' = Append(reactQueue, Item)
    /\ UNCHANGED <<main, listening, msgQueue, pc, send, react, response, request, health, codec>>

(***************************************************************************)
(* redis.go: processMessages and processReactions                          *)
(***************************************************************************)
Queue(p) == IF p = "msg" THEN msgQueue ELSE reactQueue

\* Select that also stops the loop when its list is empty.
SelectStopsOnEmpty(p) ==
    /\ Running
    /\ pc[p] = "Select"
    /\ pc' = [pc EXCEPT ![p] = IF ctxDone \/ Queue(p) = <<>> THEN "Stopped" ELSE "BLPop"]
    /\ UNCHANGED <<main, listening, msgQueue, reactQueue, send, react, response, request, health, codec>>

\* The select at the top of the loop: stop if the context is done, else BLPOP.
Select(p) ==
    /\ Running
    /\ pc[p] = "Select"
    /\ pc' = [pc EXCEPT ![p] = IF ctxDone THEN "Stopped" ELSE "BLPop"]
    /\ UNCHANGED <<main, listening, msgQueue, reactQueue, send, react, response, request, health, codec>>

\* BLPOP times out on an empty list (redis.Nil): continue.
PopTimeout(p) ==
    /\ Running
    /\ pc[p] = "BLPop"
    /\ Queue(p) = <<>>
    /\ pc' = [pc EXCEPT ![p] = "Select"]
    /\ UNCHANGED <<main, listening, msgQueue, reactQueue, send, react, response, request, health, codec>>

\* PopError that gives up the loop.
PopErrorStops(p) ==
    /\ Running
    /\ pc[p] = "BLPop"
    /\ pc' = [pc EXCEPT ![p] = "Stopped"]
    /\ UNCHANGED <<main, listening, msgQueue, reactQueue, send, react, response, request, health, codec>>

\* BLPOP fails (a Redis error, or the context was cancelled): sleep a second.
PopError(p) ==
    /\ Running
    /\ pc[p] = "BLPop"
    /\ pc' = [pc EXCEPT ![p] = "Sleep"]
    /\ UNCHANGED <<main, listening, msgQueue, reactQueue, send, react, response, request, health, codec>>

\* The sleep ends: continue.
Wake(p) ==
    /\ Running
    /\ pc[p] = "Sleep"
    /\ pc' = [pc EXCEPT ![p] = "Select"]
    /\ UNCHANGED <<main, listening, msgQueue, reactQueue, send, react, response, request, health, codec>>

\* Where a sender stands with local state s.
SendPC(p, s) ==
    IF s.ret = None
    THEN IF s.publishes = <<>> THEN "PostMessage" ELSE "Publish"
    ELSE IF p = "http" THEN "Responded" ELSE "Continue"

\* PopMessage that also fires while the answer of PostMessage is outstanding.
PopMessageWhileBusy ==
    /\ Running
    /\ pc["msg"] \in {"BLPop", "PostMessage"}
    /\ msgQueue # <<>>
    /\ msgQueue' = Tail(msgQueue)
    /\ \E raw \in RawMessages :
          LET d == UnmarshalSlackMessage(raw)
              s == IF d.err THEN IdleSend ELSE SendCall(d.msg)
          IN  /\ send' = [send EXCEPT !["msg"] = s]
              /\ pc' = [pc EXCEPT !["msg"] = IF d.err THEN "Continue" ELSE SendPC("msg", s)]
    /\ UNCHANGED <<main, listening, reactQueue, react, response, request, health, codec>>

\* PopMessage that dispatches without the validation of the dispatcher.
PopMessageUnvalidated ==
    /\ Running
    /\ pc["msg"] = "BLPop"
    /\ msgQueue # <<>>
    /\ msgQueue' = Tail(msgQueue)
    /\ \E raw \in RawMessages :
          LET d == UnmarshalSlackMessage(raw)
              s == IF d.err THEN IdleSend ELSE SendCallUnchecked(d.msg)
          IN  /\ send' = [send EXCEPT !["msg"] = s]
              /\ pc' = [pc EXCEPT !["msg"] = IF d.err THEN "Continue" ELSE SendPC("msg", s)]
    /\ UNCHANGED <<main, listening, reactQueue, react, response, request, health, codec>>

\* PopMessageOf that reads the head of the list and leaves it there.
PopMessageOfPeek(raw) ==
    /\ Running
    /\ pc["msg"] = "BLPop"
    /\ msgQueue # <<>>
    /\ msgQueue' = msgQueue
    /\ LET d == UnmarshalSlackMessage(raw)
           s == IF d.err THEN IdleSend ELSE SendCall(d.msg)
       IN  /\ send' = [send EXCEPT !["msg"] = s]
           /\ pc' = [pc EXCEPT !["msg"] = IF d.err THEN "Continue" ELSE SendPC("msg", s)]
    /\ UNCHANGED <<main, listening, reactQueue, react, response, request, health, codec>>

\* BLPOP returns the head of the message list, whose text is raw: parse it
\* and, unless that fails, call sendSlackMessage.
PopMessageOf(raw) ==
    /\ Running
    /\ pc["msg"] = "BLPop"
    /\ msgQueue # <<>>
    /\ msgQueue' = Tail(msgQueue)
    /\ LET d == UnmarshalSlackMessage(raw)
           s == IF d.err THEN IdleSend ELSE SendCall(d.msg)
       IN  /\ send' = [send EXCEPT !["msg"] = s]
           /\ pc' = [pc EXCEPT !["msg"] = IF d.err THEN "Continue" ELSE SendPC("msg", s)]
    /\ UNCHANGED <<main, listening, reactQueue, react, response, request, health, codec>>

\* BLPOP returns the head of the message list, whatever its text.
PopMessage == pc["msg"] = "BLPop" /\ \E raw \in RawMessages : PopMessageOf(raw)

\* PopReaction reading the list of the message loop.
PopReactionFromMessages ==
    /\ Running
    /\ pc["react"] = "BLPop"
    /\ msgQueue # <<>>
    /\ msgQueue' = Tail(msgQueue)
    /\ \E raw \in RawReactions :
          LET d == UnmarshalReactionMessage(raw)
              r == IF d.err THEN [IdleReact EXCEPT !.returned = TRUE] ELSE ReactCall(d.msg)
          IN  /\ react' = r
              /\ pc' = [pc EXCEPT !["react"] = IF r.returned THEN "Continue" ELSE "Reaction"]
    /\ UNCHANGED <<main, listening, reactQueue, send, response, request, health, codec>>

\* BLPOP returns the head of the reaction list, whose text is raw: parse it
\* and, unless that fails, call addSlackReaction.
PopReactionOf(raw) ==
    /\ Running
    /\ pc["react"] = "BLPop"
    /\ reactQueue # <<>>
    /\ reactQueue' = Tail(reactQueue)
    /\ LET d == UnmarshalReactionMessage(raw)
           r == IF d.err THEN [IdleReact EXCEPT !.returned = TRUE] ELSE ReactCall(d.msg)
       IN  /\ react' = r
           /\ pc' = [pc EXCEPT !["react"] = IF r.returned THEN "Continue" ELSE "Reaction"]
    /\ UNCHANGED <<main, listening, msgQueue, send, response, request, health, codec>>

\* PopReaction that waits while the message loop has a call outstanding.
PopReactionAfterMessages ==
    /\ pc["msg"] \notin {"PostMessage", "Publish"}
    /\ \E raw \in RawReactions : PopReactionOf(raw)

\* BLPOP returns the head of the reaction list, whatever its text.
PopReaction == pc["react"] = "BLPop" /\ \E raw \in RawReactions : PopReactionOf(raw)

\* AddReaction or RemoveReaction answers; the outcome is logged.
ReactionReturn ==
    /\ Running
    /\ pc["react"] = "Reaction"
    /\ \E err \in {Nil} \cup SlackErrors :
          react' = [react EXCEPT !.returned = TRUE, !.err = Some(err)]
    /\ pc' = [pc EXCEPT !["react"] = "Continue"]
    /\ UNCHANGED <<main, listening, msgQueue, reactQueue, send, response, request, health, codec>>

\* Continue that leaves the loop when the item failed.
ContinueStopsOnFailure(p) ==
    /\ Running
    /\ pc[p] = "Continue"
    /\ LET failed == IF p = "msg"
                     THEN ~send["msg"].decoded \/ send["msg"].ret[1].err # Nil
                     ELSE react.err # Some(Nil)
       IN  pc' = [pc EXCEPT ![p] = IF failed THEN "Stopped" ELSE "Select"]
    /\ IF p = "msg"
       THEN send' = [send EXCEPT !["msg"] = IdleSend] /\ UNCHANGED react
       ELSE react' = IdleReact /\ UNCHANGED send
    /\ UNCHANGED <<main, listening, msgQueue, reactQueue, response, request, health, codec>>

\* The end of an iteration: back to the select; the locals are gone.
Continue(p) ==
    /\ Running
    /\ pc[p] = "Continue"
    /\ pc' = [pc EXCEPT ![p] = "Select"]
    /\ IF p = "msg"
       THEN send' = [send EXCEPT !["msg"] = IdleSend] /\ UNCHANGED react
       ELSE react' = IdleReact /\ UNCHANGED send
    /\ UNCHANGED <<main, listening, msgQueue, reactQueue, response, request, health, codec>>

(***************************************************************************)
(* The Slack and Redis calls of sendSlackMessageWithResponse return        *)
(***************************************************************************)
\* Returned for a handler that answers 500 while the message loop has a call
\* outstanding.
ReturnedUnlessLoopBusy(p, s) ==
    /\ send' = [send EXCEPT ![p] = s]
    /\ pc' = [pc EXCEPT ![p] = SendPC(p, s)]
    /\ IF p = "http" /\ s.ret # None
       THEN response' =
               Some(IF pc["msg"] \in {"PostMessage", "Publish"}
                    THEN HTTPError("Failed to send message to Slack", StatusInternalServerError)
                    ELSE Respond(s.ret[1]))
       ELSE UNCHANGED response

\* What follows the return of sendSlackMessageWithResponse in its caller:
\* handlePostMessage writes the response, sendSlackMessage drops the values.
Returned(p, s) ==
    /\ send' = [send EXCEPT ![p] = s]
    /\ pc' = [pc EXCEPT ![p] = SendPC(p, s)]
    /\ IF p = "http" /\ s.ret # None
       THEN response' = Some(Respond(s.ret[1]))
       ELSE UNCHANGED response

\* PostMessage answers: an error, or the channel id and the timestamp.
PostMessageReturn(p) ==
    /\ Running
    /\ pc[p] = "PostMessage"
    /\ \/ \E err \in SlackErrors :
             Returned(p, SendPosted(send[p], err, [channelID |-> "", timestamp |-> ""]))
       \/ \E reply \in PlatformReplies : Returned(p, SendPosted(send[p], Nil, reply))
    /\ UNCHANGED <<main, listening, msgQueue, reactQueue, react, request, health, codec>>

\* ctx.Err() after cancel().
ErrContextCanceled == "context canceled"

\* What rdb.Publish(ctx, ...) may return: nil, an error of Redis and, once the
\* context it was given is cancelled, the error of the context.
PublishOutcomes ==
    {Nil} \cup PublishErrors \cup (IF ctxDone THEN {ErrContextCanceled} ELSE {})

\* PUBLISH answers.
PublishReturn(p) ==
    /\ Running
    /\ pc[p] = "Publish"
    /\ \E err \in PublishOutcomes : Returned(p, SendPublished(send[p], err))
    /\ UNCHANGED <<main, listening, msgQueue, reactQueue, react, request, health, codec>>

(***************************************************************************)
(* http.go: handlePostMessage                                              *)
(***************************************************************************)
\* http.MethodPost
MethodPost == "POST"

MethodNeverRejected(method) == FALSE

\* The method check of handlePostMessage.
MethodNotAllowed(method) == method # MethodPost

\* A request to /message: the method check, the decoding of the body and the
\* call of sendSlackMessageWithResponse, up to its first blocking call.
HandleMessage ==
    /\ Running
    /\ listening
    /\ pc["http"] = "Idle"
    /\ \E method \in Methods, raw \in RawMessages :
          /\ request' = Some([method |-> method, bodyIsJSON |-> raw.wellFormed])
          /\ IF MethodNotAllowed(method)
             THEN /\ response' = Some(HTTPError("Method not allowed", StatusMethodNotAllowed))
                  /\ pc' = [pc EXCEPT !["http"] = "Responded"]
                  /\ UNCHANGED send
             ELSE LET d == UnmarshalSlackMessage(raw) IN
                  IF d.err
                  THEN /\ response' = Some(HTTPError("Invalid JSON payload", StatusBadRequest))
                       /\ pc' = [pc EXCEPT !["http"] = "Responded"]
                       /\ UNCHANGED send
                  ELSE Returned("http", SendCall(d.msg))
    /\ UNCHANGED <<main, listening, msgQueue, reactQueue, react, health, codec>>

\* A client sends a request to /message.
HandlePostMessage == InFlight < MaxInFlight /\ HandleMessage

\* The handler returns: the response goes to the client, the locals are gone.
HandlerReturn ==
    /\ Running
    /\ pc["http"] = "Responded"
    /\ pc' = [pc EXCEPT !["http"] = "Idle"]
    /\ send' = [send EXCEPT !["http"] = IdleSend]
    /\ response' = None
    /\ request' = None
    /\ UNCHANGED <<main, listening, msgQueue, reactQueue, react, health, codec>>

(***************************************************************************)
(* http.go: the /health handler of startHTTPServer                         *)
(***************************************************************************)
HealthResponseUnlessCancelled ==
    IF ctxDone
    THEN HTTPError("Service unavailable", StatusInternalServerError)
    ELSE [status |-> StatusOK, contentType |-> "text/plain", body |-> <<"OK">>]

\* w.WriteHeader(http.StatusOK); w.Write([]byte("OK"))
HealthResponse == [status |-> StatusOK, contentType |-> "text/plain", body |-> <<"OK">>]

\* A request to /health, of any method: the handler writes its response.
HandleHealth ==
    /\ Running
    /\ listening
    /\ health = None
    /\ InFlight < MaxInFlight
    /\ health' = Some(HealthResponse)
    /\ UNCHANGED <<main, listening, msgQueue, reactQueue, pc, send, react, response, request, codec>>

\* The /health handler returns: the response goes to the client.
HealthReturn ==
    /\ Running
    /\ health # None
    /\ health' = None
    /\ UNCHANGED <<main, listening, msgQueue, reactQueue, pc, send, react, response, request, codec>>

Next ==
    \/ Start
    \/ Cancel
    \/ Shutdown
    \/ Exit
    \/ PushMessage
    \/ PushReaction
    \/ \E p \in Loops : Select(p)
    \/ \E p \in Loops : PopTimeout(p)
    \/ \E p \in Loops : PopError(p)
    \/ \E p \in Loops : Wake(p)
    \/ PopMessage
    \/ PopReaction
    \/ ReactionReturn
    \/ \E p \in Loops : Continue(p)
    \/ \E p \in Senders : PostMessageReturn(p)
    \/ \E p \in Senders : PublishReturn(p)
    \/ HandlePostMessage
    \/ HandlerReturn
    \/ HandleHealth
    \/ HealthReturn

(***************************************************************************)
(* The message loop alone, with several items pending in its list.  The    *)
(* items are numbered so that the order of the list shows.                 *)
(***************************************************************************)
\* A producer pushes an item the list does not hold yet.
PushNumbered ==
    /\ main \in {"starting", "serving", "cancelled"}
    /\ Len(msgQueue) < MaxQueued
    /\ \E id \in 1..(MaxQueued + 1) :
          /\ \A i \in DOMAIN msgQueue : msgQueue[i] # id
          /\ msgQueue' = Append(msgQueue, id)
    /\ UNCHANGED <<main, listening, reactQueue, pc, send, react, response, request, health, codec>>

NextSeq ==
    \/ Start
    \/ Cancel
    \/ Exit
    \/ PushNumbered
    \/ Select("msg")
    \/ PopTimeout("msg")
    \/ PopError("msg")
    \/ Wake("msg")
    \/ PopMessage
    \/ Continue("msg")
    \/ PostMessageReturn("msg")
    \/ PublishReturn("msg")

SpecSeq == Init /\ [][NextSeq]_vars

(***************************************************************************)
(* One message entering both ways: while the message loop works on an      *)
(* item, a client posts the same message to /message.                      *)
(***************************************************************************)
HandleSameMessage ==
    /\ HandleMessage
    /\ send["msg"].decoded
    /\ send'["http"].decoded
    /\ send'["http"].msg = send["msg"].msg

NextBoth ==
    \/ Start
    \/ Cancel
    \/ Shutdown
    \/ Exit
    \/ PushMessage
    \/ Select("msg")
    \/ PopTimeout("msg")
    \/ PopError("msg")
    \/ Wake("msg")
    \/ PopMessage
    \/ Continue("msg")
    \/ \E p \in Senders : PostMessageReturn(p)
    \/ \E p \in Senders : PublishReturn(p)
    \/ HandleSameMessage
    \/ HandlerReturn

SpecBoth == Init /\ [][NextBoth]_vars

(***************************************************************************)
(* The two consumer loops side by side, each with several items pending in *)
(* its list, without the HTTP server.                                      *)
(***************************************************************************)
\* A producer pushes an item to the message list.
PushMessageQueued ==
    /\ main \in {"starting", "serving", "cancelled"}
    /\ Len(msgQueue) < MaxQueued
    /\ msgQueue' = Append(msgQueue, Item)
    /\ UNCHANGED <<main, listening, reactQueue, pc, send, react, response, request, health, codec>>

\* A producer pushes an item to the reaction list.
PushReactionQueued ==
    /\ main \in {"starting", "serving", "cancelled"}
    /\ Len(reactQueue) < MaxQueued
    /\ reactQueue' = Append(reactQueue, Item)
    /\ UNCHANGED <<main, listening, msgQueue, pc, send, react, response, request, health, codec>>

NextLoops ==
    \/ Start
    \/ Cancel
    \/ Exit
    \/ PushMessageQueued
    \/ PushReactionQueued
    \/ \E p \in Loops : Select(p)
    \/ \E p \in Loops : PopTimeout(p)
    \/ \E p \in Loops : PopError(p)
    \/ \E p \in Loops : Wake(p)
    \/ PopMessage
    \/ PopReaction
    \/ ReactionReturn
    \/ \E p \in Loops : Continue(p)
    \/ PostMessageReturn("msg")
    \/ PublishReturn("msg")

SpecLoops == Init /\ [][NextLoops]_vars

(***************************************************************************)
(* The two loops of a service that is never cancelled, with numbered items *)
(* in both lists.  The goroutines are scheduled, every sleep ends, every   *)
(* Slack call and every PUBLISH answers, and a BLPOP on a list that holds  *)
(* an item does not fail for ever.                                         *)
(***************************************************************************)
\* A producer pushes an item the reaction list does not hold yet.
PushNumberedReaction ==
    /\ main \in {"starting", "serving", "cancelled"}
    /\ Len(reactQueue) < MaxQueued
    /\ \E id \in 1..(MaxQueued + 1) :
          /\ \A i \in DOMAIN reactQueue : reactQueue[i] # id
          /\ reactQueue' = Append(reactQueue, id)
    /\ UNCHANGED <<main, listening, msgQueue, pc, send, react, response, request, health, codec>>

\* The texts of the items: one that does not parse, one that fails validation,
\* one that is posted and one that is posted with a TTL.
LiveMessages ==
    {raw \in RawMessages :
        \/ ~raw.wellFormed
        \/ /\ raw.wellFormed
           /\ raw.obj.blocks = None /\ raw.obj.thread_ts = None /\ raw.obj.metadata = None
           /\ \/ raw.obj.channel = None /\ raw.obj.text = None /\ raw.obj.ttl = None
              \/ raw.obj.channel # None /\ raw.obj.text # None /\ raw.obj.ttl \in {None, Some(300)}}

\* One reaction that does not parse, one that fails validation, one to add and
\* one to remove.
LiveReactions ==
    {raw \in RawReactions :
        \/ ~raw.wellFormed
        \/ /\ raw.wellFormed
           /\ \/ raw.obj = EmptyReactionObject
              \/ /\ raw.obj.reaction # None /\ raw.obj.channel # None /\ raw.obj.ts # None
                 /\ raw.obj.remove # None}

PopMessageLive == \E raw \in LiveMessages : PopMessageOf(raw)

PopReactionLive == \E raw \in LiveReactions : PopReactionOf(raw)

NextLive ==
    \/ Start
    \/ PushNumbered
    \/ PushNumberedReaction
    \/ \E p \in Loops : Select(p)
    \/ \E p \in Loops : PopTimeout(p)
    \/ \E p \in Loops : PopError(p)
    \/ \E p \in Loops : Wake(p)
    \/ PopMessageLive
    \/ PopReactionLive
    \/ ReactionReturn
    \/ \E p \in Loops : Continue(p)
    \/ PostMessageReturn("msg")
    \/ PublishReturn("msg")

Fairness ==
    /\ \A p \in Loops :
          /\ WF_vars(Select(p))
          /\ WF_vars(PopTimeout(p))
          /\ WF_vars(Wake(p))
          /\ WF_vars(Continue(p))
    /\ SF_vars(PopMessageLive)
    /\ SF_vars(PopReactionLive)
    /\ WF_vars(PostMessageReturn("msg"))
    /\ WF_vars(PublishReturn("msg"))
    /\ WF_vars(ReactionReturn)

SpecLive == Init /\ [][NextLive]_vars /\ Fairness

(***************************************************************************)
(* The HTTP handler next to the message loop: requests to /message of any  *)
(* method and body are served while the loop works through its list.       *)
(***************************************************************************)
NextServe ==
    \/ Start
    \/ Cancel
    \/ Shutdown
    \/ Exit
    \/ PushMessageQueued
    \/ Select("msg")
    \/ PopTimeout("msg")
    \/ PopError("msg")
    \/ Wake("msg")
    \/ PopMessageLive
    \/ Continue("msg")
    \/ \E p \in Senders : PostMessageReturn(p)
    \/ \E p \in Senders : PublishReturn(p)
    \/ HandleMessage
    \/ HandlerReturn

SpecServe == Init /\ [][NextServe]_vars

Spec == Init /\ [][Next]_vars

(***************************************************************************)
(* Properties                                                              *)
(***************************************************************************)
\* The request of sender p went through sendSlackMessageWithResponse, which
\* has returned.
Finished(p) == send[p].decoded /\ send[p].ret # None

\* The error sendSlackMessageWithResponse returned to p.
RetErr(p) == send[p].ret[1].err

\* The failure kinds of the validator, as the code reports them: the error
\* returned and the line logged.
FailsWith(p, err, log) == Finished(p) /\ RetErr(p) = err /\ send[p].log = log

MissingChannel(p) == FailsWith(p, ErrInvalidMessage, LogChannelRequired)

MissingContent(p) == FailsWith(p, ErrInvalidMessage, LogContentRequired)

InvalidTTL(p) == FailsWith(p, ErrInvalidTTL, LogTTLNegative)

NoContent(msg) == msg.Text = "" /\ Len(msg.Blocks) = 0

\* A PostRequest that fails validation, in the words of the claims.
InvalidPost(msg) == msg.Channel = "" \/ NoContent(msg) \/ msg.TTL < 0

InvalidReaction(msg) == msg.Reaction = "" \/ msg.Channel = "" \/ msg.TS = ""

\* C1: a PostRequest with an empty channel fails validation with MissingChannel,
\* whatever its other fields, at the HTTP and at the queue entry point.
C1_EmptyChannelIsMissingChannel ==
    \A p \in Senders :
        send[p].decoded /\ send[p].msg.Channel = "" => MissingChannel(p)

\* Reached: the queue entry point rejected an item with no channel, no content
\* and a negative ttl as MissingChannel.
C1_Witness ==
    /\ pc["msg"] = "Continue"
    /\ send["msg"].msg.Channel = "" /\ NoContent(send["msg"].msg) /\ send["msg"].msg.TTL < 0
    /\ MissingChannel("msg")

\* C2 as stated: a PostRequest with empty text and empty blocks fails validation
\* with MissingContent.
C2_Original ==
    \A p \in Senders :
        send[p].decoded /\ NoContent(send[p].msg) => MissingContent(p)

\* C2, amended: a PostRequest with a non-empty channel, empty text and empty
\* blocks fails validation with MissingContent.
C2_NoContentIsMissingContent ==
    \A p \in Senders :
        send[p].decoded /\ send[p].msg.Channel # "" /\ NoContent(send[p].msg)
            => MissingContent(p)

\* Reached: the HTTP handler rejected a body with a channel and a negative ttl but
\* neither text nor blocks as MissingContent.
C2_Witness ==
    /\ pc["http"] = "Responded"
    /\ send["http"].msg.Channel # "" /\ NoContent(send["http"].msg)
    /\ send["http"].msg.TTL < 0
    /\ MissingContent("http")

\* C3 as stated: a PostRequest with ttl < 0 fails validation with InvalidTTL, for
\* every combination of the other fields.
C3_Original ==
    \A p \in Senders : send[p].decoded /\ send[p].msg.TTL < 0 => InvalidTTL(p)

\* C3, amended: a PostRequest with ttl < 0, a non-empty channel and text or
\* blocks fails validation with InvalidTTL.
C3_NegativeTTLIsInvalidTTL ==
    \A p \in Senders :
        /\ send[p].decoded
        /\ send[p].msg.TTL < 0
        /\ send[p].msg.Channel # ""
        /\ ~NoContent(send[p].msg)
        => InvalidTTL(p)

\* Reached: a queue item with a channel, blocks only and ttl -1 was rejected as
\* InvalidTTL.
C3_Witness ==
    /\ pc["msg"] = "Continue"
    /\ send["msg"].msg.TTL < 0 /\ send["msg"].msg.Text = ""
    /\ Len(send["msg"].msg.Blocks) > 0
    /\ InvalidTTL("msg")

\* C4: for a PostRequest that fails validation (empty channel, no text and no
\* blocks, or ttl < 0) no PostMessage call and no PUBLISH is made, over HTTP and
\* from the queue.
C4_InvalidPostMakesNoCall ==
    \A p \in Senders :
        send[p].decoded /\ InvalidPost(send[p].msg)
            => send[p].calls = <<>> /\ send[p].publishes = <<>> /\ send[p].reply = None

\* Reached: the HTTP handler has answered a request with text and a channel but
\* ttl -1, and nothing was called.
C4_Witness ==
    /\ pc["http"] = "Responded"
    /\ send["http"].decoded
    /\ send["http"].msg.Channel # "" /\ send["http"].msg.Text # ""
    /\ send["http"].msg.TTL < 0
    /\ send["http"].calls = <<>> /\ send["http"].publishes = <<>>

\* C5: a ReactionRequest with an empty reaction, channel or ts fails validation
\* and neither AddReaction nor RemoveReaction is called.
C5_InvalidReactionMakesNoCall ==
    react.decoded /\ InvalidReaction(react.msg)
        => react.log = LogReactionFields /\ react.calls = <<>> /\ react.returned

\* Reached: a reaction item with reaction and channel but no ts was rejected.
C5_Witness ==
    /\ pc["react"] = "Continue"
    /\ react.decoded
    /\ react.msg.Reaction # "" /\ react.msg.Channel # "" /\ react.msg.TS = ""
    /\ react.log = LogReactionFields /\ react.calls = <<>>

\* The request p holds passed validation and its handling is over.
ValidPostOver(p) == Finished(p) /\ ~InvalidPost(send[p].msg)

ValidReactionOver == react.decoded /\ react.returned /\ ~InvalidReaction(react.msg)

\* The blocks payload of the message is present and is no block array.
BlocksUnparseable(msg) == Len(msg.Blocks) > 0 /\ UnmarshalBlocks(msg.Blocks).err # Nil

\* C6 as stated: exactly one Slack call for every request that passed
\* validation, never zero and never more than one.
C6_Original ==
    /\ \A p \in Senders : Len(send[p].calls) <= 1
    /\ \A p \in Senders : ValidPostOver(p) => Len(send[p].calls) = 1
    /\ Len(react.calls) <= 1
    /\ ValidReactionOver => Len(react.calls) = 1

\* C6, amended: never more than one Slack call per request; exactly one for
\* every valid reaction and for every valid post whose blocks payload parses,
\* and none for a valid post whose blocks payload does not parse.
C6_OneCallUnlessBlocksFail ==
    /\ \A p \in Senders : Len(send[p].calls) <= 1
    /\ \A p \in Senders :
          ValidPostOver(p)
              => Len(send[p].calls) = IF BlocksUnparseable(send[p].msg) THEN 0 ELSE 1
    /\ Len(react.calls) <= 1
    /\ ValidReactionOver => Len(react.calls) = 1

\* Reached: a valid queue item with text and an unparseable blocks payload is
\* over without a call.
C6_Witness ==
    /\ pc["msg"] = "Continue"
    /\ ValidPostOver("msg")
    /\ send["msg"].msg.Text # ""
    /\ BlocksUnparseable(send["msg"].msg)
    /\ send["msg"].calls = <<>>

\* The deletion notice of the request of p, as the claims describe it.
ExpectedNotice(p) ==
    [channel |-> timeBombChannel,
     payload |-> [channel |-> send[p].reply[1].channelID,
                  ts      |-> send[p].reply[1].timestamp,
                  ttl     |-> send[p].msg.TTL]]

\* C7: for a PostRequest with ttl > 0 whose PostMessage succeeded, exactly one
\* deletion notice is handed to PUBLISH; it carries the channel and timestamp
\* the platform returned, not the channel of the request, and the requested ttl.
C7_OneNoticeKeyedOnPlatformReply ==
    \A p \in Senders :
        send[p].reply # None /\ send[p].msg.TTL > 0
            => /\ send[p].publishes = <<ExpectedNotice(p)>>
               /\ send[p].publishes[1].payload.channel # send[p].msg.Channel

\* Reached: the HTTP handler answered a request with ttl 300 after a successful
\* post and a successful PUBLISH of its one notice.
C7_Witness ==
    /\ pc["http"] = "Responded"
    /\ send["http"].msg.TTL = 300
    /\ send["http"].reply # None
    /\ send["http"].pubErr = Some(Nil)
    /\ Len(send["http"].publishes) = 1
    /\ send["http"].publishes[1].payload.ttl = 300

\* C8: for a PostRequest with ttl 0 (given or absent) no deletion notice is
\* published, even when PostMessage succeeds.
C8_NoNoticeWithoutTTL ==
    \A p \in Senders : send[p].decoded /\ send[p].msg.TTL = 0 => send[p].publishes = <<>>

\* Reached: a queue item with ttl 0 was posted successfully and its handling is
\* over without a notice.
C8_Witness ==
    /\ pc["msg"] = "Continue"
    /\ send["msg"].decoded /\ send["msg"].msg.TTL = 0
    /\ send["msg"].reply # None
    /\ RetErr("msg") = Nil
    /\ send["msg"].publishes = <<>>

\* C9: a notice is published only after a successful PostMessage of a valid
\* PostRequest with ttl > 0: never before PostMessage has answered, never after
\* it failed, never after a decode or validation failure.
C9_NoticeOnlyAfterSuccessfulPost ==
    \A p \in Senders :
        /\ send[p].publishes # <<>>
              => /\ send[p].decoded
                 /\ ~InvalidPost(send[p].msg)
                 /\ send[p].msg.TTL > 0
                 /\ Len(send[p].calls) = 1
                 /\ send[p].reply # None
                 /\ pc[p] # "PostMessage"
        /\ Finished(p) /\ RetErr(p) # Nil => send[p].publishes = <<>>
        /\ pc[p] = "PostMessage" => send[p].publishes = <<>>

\* Reached: the message loop waits for the answer to the PUBLISH of a notice.
C9_Witness ==
    /\ pc["msg"] = "Publish"
    /\ send["msg"].publishes # <<>>
    /\ send["msg"].reply # None

\* C10: at most one PUBLISH is attempted per PostRequest; a failed one is not
\* attempted again and a successful one is not repeated.
C10_AtMostOnePublish ==
    \A p \in Senders :
        /\ Len(send[p].publishes) <= 1
        /\ send[p].pubErr # None => Len(send[p].publishes) = 1 /\ send[p].ret # None

\* Reached: the PUBLISH of a queue item's notice failed and the handling is over
\* after that one attempt.
C10_Witness ==
    /\ pc["msg"] = "Continue"
    /\ send["msg"].pubErr # None
    /\ send["msg"].pubErr # Some(Nil)
    /\ Len(send["msg"].publishes) = 1

\* The PUBLISH of sender p's deletion notice failed.
PublishFailed(p) == send[p].pubErr \in {Some(e) : e \in PublishErrors}

\* The success response for the message the platform accepted from sender p.
PostResultOf(p) ==
    [status |-> StatusOK, contentType |-> "application/json",
     body |-> <<"channel", send[p].reply[1].channelID, "ts", send[p].reply[1].timestamp>>]

\* C11: when the post succeeded and the PUBLISH of the deletion notice failed,
\* the dispatch still reports success with the platform's channel and
\* timestamp, and the HTTP answer is 200 with those values: the caller sees no
\* error.
C11_PublishFailureIsSuccess ==
    \A p \in Senders :
        PublishFailed(p) =>
            /\ send[p].reply # None
            /\ send[p].ret = Some([channelID |-> send[p].reply[1].channelID,
                                   timestamp |-> send[p].reply[1].timestamp,
                                   err |-> Nil])
            /\ p = "http" => response = Some(PostResultOf(p))

\* Reached: the HTTP handler answered 200 although the PUBLISH had failed.
C11_Witness ==
    /\ pc["http"] = "Responded"
    /\ PublishFailed("http")
    /\ response # None
    /\ response[1].status = StatusOK

\* The reaction loop holds a decoded ReactionRequest that passes validation.
ValidReaction == react.decoded /\ ~InvalidReaction(react.msg)

\* C12: for a valid ReactionRequest with remove absent or false the service
\* calls AddReaction and never RemoveReaction; with remove true it calls
\* RemoveReaction and never AddReaction.
C12_RemoveFlagChoosesTheCall ==
    ValidReaction =>
        /\ react.calls # <<>>
        /\ ~react.msg.Remove => \A i \in DOMAIN react.calls : react.calls[i].op = "AddReaction"
        /\ react.msg.Remove => \A i \in DOMAIN react.calls : react.calls[i].op = "RemoveReaction"

\* Reached: a reaction was removed on request, and the platform accepted it.
C12_Witness ==
    /\ pc["react"] = "Continue"
    /\ ValidReaction
    /\ react.msg.Remove
    /\ react.calls[1].op = "RemoveReaction"
    /\ react.err = Some(Nil)

\* C13: the reaction call of a valid ReactionRequest names the reaction of the
\* request and refers to the message by the channel and the timestamp of the
\* request, each in its own place.
C13_ReactionCallAsSupplied ==
    ValidReaction =>
        /\ react.calls # <<>>
        /\ \A i \in DOMAIN react.calls :
              /\ react.calls[i].name = react.msg.Reaction
              /\ react.calls[i].item = [Channel |-> react.msg.Channel,
                                        Timestamp |-> react.msg.TS]

\* Reached: the reaction loop waits for the answer to a call that carries the
\* three values of the request.
C13_Witness ==
    /\ pc["react"] = "Reaction"
    /\ react.msg.Channel \in ItemChannels /\ react.msg.TS \in ItemTimestamps
    /\ react.calls[1].item.Channel = react.msg.Channel
    /\ react.calls[1].item.Timestamp = react.msg.TS
    /\ react.calls[1].name \in Reactions

\* The HTTP handler made no PostMessage call and no PUBLISH for its request.
NoRemoteCallByHandler == send["http"].calls = <<>> /\ send["http"].publishes = <<>>

\* C14: a request to /message whose method is not POST is answered 405; its
\* body is not decoded, nothing is posted and nothing is published.
C14_NonPostIsMethodNotAllowed ==
    request # None /\ request[1].method # "POST" =>
        /\ response # None
        /\ response[1].status = StatusMethodNotAllowed
        /\ response[1].body = <<"Method not allowed">>
        /\ ~send["http"].decoded
        /\ NoRemoteCallByHandler

\* Reached: a GET whose body is the JSON text of a message was answered 405.
C14_Witness ==
    /\ pc["http"] = "Responded"
    /\ request = Some([method |-> "GET", bodyIsJSON |-> TRUE])
    /\ response # None
    /\ response[1].status = StatusMethodNotAllowed

FailureMessage(err) == Respond([channelID |-> "", timestamp |-> "", err |-> err]).body

\* The message each failure kind gets: the kinds MissingChannel and
\* MissingContent return ErrInvalidMessage, the kind InvalidTTL ErrInvalidTTL.
MessageOfKind ==
    [MissingChannel |-> FailureMessage(ErrInvalidMessage),
     MissingContent |-> FailureMessage(ErrInvalidMessage),
     InvalidTTL     |-> FailureMessage(ErrInvalidTTL)]

\* The failure kind of the request the HTTP handler answered.
KindAnswered ==
    IF MissingChannel("http") THEN "MissingChannel"
    ELSE IF MissingContent("http") THEN "MissingContent"
    ELSE IF InvalidTTL("http") THEN "InvalidTTL"
    ELSE "none"

\* C16 as stated: a validation failure is answered 400 with a message of its
\* own kind, one that neither of the other two kinds produces.
C16_Original ==
    KindAnswered # "none" =>
        /\ response # None
        /\ response[1].status = StatusBadRequest
        /\ \A k \in DOMAIN MessageOfKind \ {KindAnswered} :
              response[1].body # MessageOfKind[k]

\* C16, amended: a validation failure is answered 400 with the text of the error
\* the dispatcher returned; MissingChannel and MissingContent share the text of
\* ErrInvalidMessage, InvalidTTL has the text of ErrInvalidTTL, which differs.
C16_ValidationFailureIsBadRequest ==
    KindAnswered # "none" =>
        /\ response # None
        /\ response[1].status = StatusBadRequest
        /\ response[1].body =
              <<IF KindAnswered = "InvalidTTL" THEN ErrInvalidTTL ELSE ErrInvalidMessage>>
        /\ KindAnswered = "InvalidTTL" =>
              response[1].body # MessageOfKind["MissingChannel"]
        /\ NoRemoteCallByHandler

\* Reached: a POST without content was answered 400 with the message a POST
\* without channel gets as well.
C16_Witness ==
    /\ pc["http"] = "Responded"
    /\ MissingContent("http")
    /\ response # None
    /\ response[1].status = StatusBadRequest
    /\ response[1].body = MessageOfKind["MissingChannel"]

\* C17: a POST whose blocks payload cannot be parsed as a block list is
\* answered 400, and nothing is posted and nothing is published.
C17_BlocksFailureIsBadRequest ==
    /\ pc["http"] = "Responded"
    /\ Finished("http")
    /\ ~InvalidPost(send["http"].msg)
    /\ BlocksUnparseable(send["http"].msg)
    => /\ response # None
       /\ response[1].status = StatusBadRequest
       /\ NoRemoteCallByHandler

\* The PostMessage call of sender p failed.
PostFailed(p) == Finished(p) /\ send[p].calls # <<>> /\ RetErr(p) \in SlackErrors

\* C18: when the PostMessage call fails, the HTTP handler answers 500 with one
\* fixed message, whatever the cause, and no deletion notice is published.
C18_PostFailureIsGenericServerError ==
    PostFailed("http") =>
        /\ response = Some([status |-> StatusInternalServerError,
                            contentType |-> "text/plain",
                            body |-> <<"Failed to send message to Slack">>])
        /\ send["http"].publishes = <<>>

\* Reached: the platform refused a message with a TTL for its rate limit; the
\* handler answered 500.
C18_Witness ==
    /\ pc["http"] = "Responded"
    /\ PostFailed("http")
    /\ RetErr("http") = "ratelimited"
    /\ send["http"].msg.TTL > 0
    /\ response # None
    /\ response[1].status = StatusInternalServerError

\* C19: a POST that succeeds is answered 200 with a JSON body whose channel and
\* ts are the values the platform assigned to the message of that request.
C19_SuccessAnswersPlatformValues ==
    Finished("http") /\ RetErr("http") = Nil =>
        /\ send["http"].reply # None
        /\ send["http"].reply[1] \in PlatformReplies
        /\ response = Some(PostResultOf("http"))

\* Reached: a POST without TTL was answered 200 with the channel id of the
\* platform, which is not the channel name of the request.
C19_Witness ==
    /\ pc["http"] = "Responded"
    /\ Finished("http") /\ RetErr("http") = Nil
    /\ send["http"].msg.TTL = 0
    /\ response # None
    /\ response[1].status = StatusOK
    /\ response[1].body[2] = "C0987654321"
    /\ response[1].body[2] # send["http"].msg.Channel

Processing == {"PostMessage", "Publish", "Reaction", "Continue"}

Waiting == {"Select", "BLPop", "Sleep"}

\* C21: a consumer loop that holds an item always gets to the end of its
\* iteration and from there back to the head of the loop, whatever became of
\* the item; only the end of the process takes a loop out of Processing
\* otherwise.
C21_ProcessingReturnsToWaiting ==
    /\ [](\A p \in Loops : Running /\ pc[p] = "Continue" => ENABLED Continue(p))
    /\ [][\A p \in Loops :
            pc[p] \in Processing /\ pc'[p] \notin Processing /\ main' # "exited"
                => pc'[p] = "Select"]_vars

\* Reached: the message loop is at the end of an iteration whose PostMessage
\* call failed.
C21_Witness ==
    /\ pc["msg"] = "Continue"
    /\ PostFailed("msg")
    /\ main = "serving"

\* C22: once the context is cancelled each consumer loop reaches Stopped, so
\* the process does not end with a loop anywhere else, and a loop that has
\* stopped stays stopped and pops nothing.
C22_CancelledLoopsStop ==
    [][/\ main # "exited" /\ main' = "exited" => \A p \in Loops : pc[p] = "Stopped"
       /\ \A p \in Loops :
             pc[p] = "Stopped" =>
                 /\ pc'[p] \in {"Stopped", "Exited"}
                 /\ Len(Queue(p)') >= Len(Queue(p))]_vars

\* C23: the message loop takes the oldest item of its list, and takes it only
\* when it holds no item: the dispatch of the item before (its PostMessage
\* call and its PUBLISH, if any) is over, whether it succeeded or failed; the
\* dispatch of the item taken starts in the same step.
C23_OneItemAtATimeInOrder ==
    /\ [](pc["msg"] \in Waiting => send["msg"] = IdleSend)
    /\ [][Len(msgQueue') < Len(msgQueue) =>
            /\ msgQueue' = Tail(msgQueue)
            /\ pc["msg"] = "BLPop"
            /\ send["msg"] = IdleSend
            /\ pc'["msg"] \in Processing]_vars

\* Reached: two items wait in the list while the PUBLISH for the item in hand
\* is outstanding.
C23_Witness ==
    /\ pc["msg"] = "Publish"
    /\ Len(msgQueue) = 2
    /\ msgQueue[1] # msgQueue[2]

\* C24: an item leaves the message list only by a step of the message loop,
\* which leaves the reaction loop as it is, and an item leaves the reaction
\* list only by a step of the reaction loop, which leaves the senders as they
\* are; the message loop makes only PostMessage calls and PUBLISHes, the
\* reaction loop only AddReaction and RemoveReaction calls.
C24_LoopsOnDisjointQueues ==
    /\ [](/\ \A i \in DOMAIN send["msg"].calls :
                DOMAIN send["msg"].calls[i] = {"channel", "options"}
          /\ \A i \in DOMAIN send["msg"].publishes :
                send["msg"].publishes[i].channel = timeBombChannel
          /\ \A i \in DOMAIN react.calls :
                react.calls[i].op \in {"AddReaction", "RemoveReaction"})
    /\ [][/\ (Len(msgQueue') < Len(msgQueue) =>
                /\ pc["msg"] = "BLPop" /\ pc'["msg"] \in Processing
                /\ reactQueue' = reactQueue
                /\ react' = react /\ pc'["react"] = pc["react"])
          /\ (Len(reactQueue') < Len(reactQueue) =>
                /\ pc["react"] = "BLPop" /\ pc'["react"] \in Processing
                /\ msgQueue' = msgQueue
                /\ send' = send /\ pc'["msg"] = pc["msg"])]_vars

\* Reached: the reaction loop has made its call for an item of its list while
\* the message loop waits in BLPOP with nothing in hand.
C24_Witness ==
    /\ pc["react"] = "Continue"
    /\ react.calls # <<>>
    /\ react.err # None
    /\ pc["msg"] = "BLPop"
    /\ send["msg"] = IdleSend

\* C25: no Slack call is made twice: an item or an HTTP request has at most
\* one call, which stays the only one until the item or the request is
\* done with, and no step of the service adds an item to a list.
C25_NoRetry ==
    /\ [](/\ \A p \in Senders : Len(send[p].calls) <= 1
          /\ Len(react.calls) <= 1)
    /\ [][/\ \A p \in Senders :
                send[p].calls # <<>> /\ send'[p].calls # <<>>
                    => send'[p].calls = send[p].calls
           /\ (react.calls # <<>> /\ react'.calls # <<>> => react'.calls = react.calls)
           /\ (pc' # pc => /\ Len(msgQueue') <= Len(msgQueue)
                           /\ Len(reactQueue') <= Len(reactQueue))]_vars

\* Reached: the reaction loop is done with an item whose one call was refused
\* for the rate limit; the item is not back in the list.
C25_Witness ==
    /\ pc["react"] = "Continue"
    /\ Len(react.calls) = 1
    /\ react.err = Some("ratelimited")
    /\ reactQueue = <<>>

\* Nothing of the service runs: no listener, no loop, no handler.
NothingStarted ==
    /\ ~listening
    /\ \A p \in Procs : pc[p] = "NotStarted"
    /\ send = [p \in Senders |-> IdleSend] /\ react = IdleReact
    /\ response = None /\ request = None /\ health = None

\* C26: main starts the listener and the two loops only when the token is set,
\* the Redis ping succeeded and the Slack authentication test succeeded; if one
\* of the three fails the process is over, and it has popped no item and served
\* no request.
C26_StartOnlyAfterTheThreeChecks ==
    /\ [](main \in {"starting", "fatal"} => NothingStarted)
    /\ [][/\ \A token \in BOOLEAN, ping \in BOOLEAN, auth \in BOOLEAN :
                StartWith(token, ping, auth) =>
                    IF token /\ ping /\ auth
                    THEN main' = "serving" /\ listening'
                         /\ \A p \in Loops : pc'[p] = "Select"
                    ELSE main' = "fatal" /\ pc' = pc /\ ~listening'
           /\ (main = "fatal" =>
                 /\ main' = "fatal"
                 /\ Len(msgQueue') >= Len(msgQueue)
                 /\ Len(reactQueue') >= Len(reactQueue))]_vars

\* Reached: a check failed and the process is over, with an item left in the
\* message list.
C26_Witness ==
    /\ main = "fatal"
    /\ msgQueue # <<>>
    /\ NothingStarted

\* The message loop and the HTTP handler hold the same PostRequest.
SameRequestBothWays ==
    /\ send["msg"].decoded /\ send["http"].decoded
    /\ send["msg"].msg = send["http"].msg

\* C27: a PostRequest that enters through the list and through /message gets
\* the same validation outcome (the error returned and the line logged) and
\* the same PostMessage call at both; after the platform has answered both,
\* both have a deletion notice or neither has, and for the same answer the
\* notices are the same.
C27_SameDispatchAtBothEntries ==
    SameRequestBothWays =>
        /\ send["msg"].log = send["http"].log
        /\ send["msg"].calls = send["http"].calls
        /\ send["msg"].calls = <<>> => send["msg"].ret = send["http"].ret
        /\ send["msg"].reply # None /\ send["http"].reply # None =>
              /\ Len(send["msg"].publishes) = Len(send["http"].publishes)
              /\ send["msg"].reply = send["http"].reply
                    => send["msg"].publishes = send["http"].publishes

\* Reached: the same message with a TTL was posted through both entries, the
\* platform gave the same answer, and each entry has handed over its notice.
C27_Witness ==
    /\ SameRequestBothWays
    /\ pc["msg"] = "Continue" /\ pc["http"] = "Responded"
    /\ send["msg"].reply # None
    /\ send["msg"].reply = send["http"].reply
    /\ Len(send["msg"].publishes) = 1
    /\ send["msg"].publishes = send["http"].publishes

(***************************************************************************)
(* encoding/json on SlackMessage, ReactionMessage and MessageResponse: a   *)
(* value is marshalled and the text unmarshalled again.                    *)
(***************************************************************************)
\* Blocks payloads as a client may send them: compact, with white space
\* between the tokens, and with characters json.Marshal escapes.
CodecBlockPayloads ==
    BlockPayloads \cup {<<"[", " ", "section", "]">>, <<"[", "<b>", "]">>}

CodecMetadatas ==
    Metadatas \cup
        {[event_type |-> "task_created",
          event_payload |-> [task_id |-> "123", count |-> 3, urgent |-> TRUE,
                             nested |-> [priority |-> "high", retries |-> 0,
                                         done |-> FALSE]]]}

\* The SlackMessages that pass validation.
ValidPostRequests ==
    {m \in [Channel : Channels, Text : {""} \cup Texts,
            Blocks : {<<>>} \cup CodecBlockPayloads, ThreadTS : {""} \cup ThreadTSs,
            Metadata : Opt({DecodeMetadata(md) : md \in CodecMetadatas}),
            TTL : {t \in TTLs : t >= 0}] : ~InvalidPost(m)}

ValidReactionRequests ==
    [Reaction : Reactions, Channel : ItemChannels, TS : ItemTimestamps, Remove : BOOLEAN]

PostResults == {[Channel |-> r.channelID, TS |-> r.timestamp] : r \in PlatformReplies}

\* json.Marshal writes a token of a json.RawMessage with <, > and & escaped.
EscapeHTML(token) == IF token = "<b>" THEN "\\u003cb\\u003e" ELSE token

\* json.Marshal writes a json.RawMessage compacted: without the white space
\* between its tokens.
RECURSIVE Compact(_)
Compact(raw) ==
    IF raw = <<>> THEN <<>>
    ELSE IF Head(raw) = " " THEN Compact(Tail(raw))
    ELSE <<EscapeHTML(Head(raw))>> \o Compact(Tail(raw))

\* json.Marshal of a MessageMetadata.
EncodeMetadata(md) == [event_type |-> md.EventType, event_payload |-> md.EventPayload]

\* MarshalSlackMessage for a struct whose Metadata field is not exported to JSON.
MarshalSlackMessageDropsMetadata(msg) ==
    [wellFormed |-> TRUE,
     obj |-> [channel   |-> Some(msg.Channel),
              text      |-> IF msg.Text = "" THEN None ELSE Some(msg.Text),
              blocks    |-> IF Len(msg.Blocks) = 0 THEN None ELSE Some(Compact(msg.Blocks)),
              thread_ts |-> IF msg.ThreadTS = "" THEN None ELSE Some(msg.ThreadTS),
              metadata  |-> None,
              ttl       |-> IF msg.TTL = 0 THEN None ELSE Some(msg.TTL)]]

\* json.Marshal of a SlackMessage: channel always, the omitempty members when
\* they are not the zero value.
MarshalSlackMessage(msg) ==
    [wellFormed |-> TRUE,
     obj |-> [channel   |-> Some(msg.Channel),
              text      |-> IF msg.Text = "" THEN None ELSE Some(msg.Text),
              blocks    |-> IF Len(msg.Blocks) = 0 THEN None ELSE Some(Compact(msg.Blocks)),
              thread_ts |-> IF msg.ThreadTS = "" THEN None ELSE Some(msg.ThreadTS),
              metadata  |-> IF msg.Metadata = None THEN None
                            ELSE Some(EncodeMetadata(msg.Metadata[1])),
              ttl       |-> IF msg.TTL = 0 THEN None ELSE Some(msg.TTL)]]

\* The remove member json.Marshal writes for a ReactionMessage.
MarshalRemove(remove) == IF remove THEN Some(TRUE) ELSE None

\* json.Marshal of a ReactionMessage.
MarshalReactionMessage(msg) ==
    [wellFormed |-> TRUE,
     obj |-> [reaction |-> Some(msg.Reaction), channel |-> Some(msg.Channel),
              ts |-> Some(msg.TS), remove |-> MarshalRemove(msg.Remove)]]

\* json.Unmarshal into a MessageResponse.
DecodeMessageResponse(wire) == [Channel |-> wire[2], TS |-> wire[4]]

CodecInputs ==
    {[kind |-> "PostRequest", value |-> v, wire |-> None, back |-> None] :
        v \in ValidPostRequests}
    \cup {[kind |-> "ReactionRequest", value |-> v, wire |-> None, back |-> None] :
        v \in ValidReactionRequests}
    \cup {[kind |-> "PostResult", value |-> v, wire |-> None, back |-> None] :
        v \in PostResults}

InitJSON ==
    /\ main = "starting"
    /\ listening = FALSE
    /\ msgQueue = <<>>
    /\ reactQueue = <<>>
    /\ pc = [p \in Procs |-> "NotStarted"]
    /\ send = [p \in Senders |-> IdleSend]
    /\ react = IdleReact
    /\ response = None
    /\ request = None
    /\ health = None
    /\ codec \in CodecInputs

\* json.Marshal of the value.
Serialize ==
    /\ codec.wire = None
    /\ codec' = [codec EXCEPT !.wire =
                    Some(CASE codec.kind = "PostRequest" -> MarshalSlackMessage(codec.value)
                           [] codec.kind = "ReactionRequest" ->
                                  MarshalReactionMessage(codec.value)
                           [] codec.kind = "PostResult" ->
                                  EncodeMessageResponse(codec.value))]
    /\ UNCHANGED <<main, listening, msgQueue, reactQueue, pc, send, react, response,
                   request, health>>

\* json.Unmarshal of the text.
Deserialize ==
    /\ codec.wire # None
    /\ codec.back = None
    /\ codec' = [codec EXCEPT !.back =
                    Some(CASE codec.kind = "PostRequest" ->
                                  UnmarshalSlackMessage(codec.wire[1]).msg
                           [] codec.kind = "ReactionRequest" ->
                                  UnmarshalReactionMessage(codec.wire[1]).msg
                           [] codec.kind = "PostResult" ->
                                  DecodeMessageResponse(codec.wire[1]))]
    /\ UNCHANGED <<main, listening, msgQueue, reactQueue, pc, send, react, response,
                   request, health>>

NextJSON == Serialize \/ Deserialize

SpecJSON == InitJSON /\ [][NextJSON]_vars

\* C28 as stated: a valid PostRequest, ReactionRequest or PostResult that is
\* marshalled and unmarshalled again is equal to the value, field for field.
C28_Original == codec.back # None => codec.back = Some(codec.value)

\* C28, amended: the value comes back equal field for field, except that the
\* blocks of a PostRequest come back compacted; they are the same bytes when
\* the payload was compact to begin with.
C28_RoundTripUpToCompactBlocks ==
    codec.back # None =>
        IF codec.kind = "PostRequest"
        THEN /\ codec.back = Some([codec.value EXCEPT !.Blocks = Compact(@)])
             /\ Compact(codec.value.Blocks) = codec.value.Blocks
                   => codec.back = Some(codec.value)
        ELSE codec.back = Some(codec.value)

\* Reached: a PostRequest with nested metadata, a TTL and blocks with white
\* space between the tokens came back with the blocks compacted.
C28_Witness ==
    /\ codec.kind = "PostRequest"
    /\ codec.back # None
    /\ codec.value.TTL > 0
    /\ codec.value.Metadata # None
    /\ codec.value.Metadata[1].EventType = "task_created"
    /\ codec.back[1].Metadata = codec.value.Metadata
    /\ codec.back[1].Blocks # codec.value.Blocks
    /\ codec.back[1].Blocks = <<"[", "section", "]">>

\* C29: a cancellation that arrives while the message loop holds an item does
\* not alter the processing of the item: the process does not end under it,
\* and its PUBLISH does not fail for the cancelled context.
C29_CancelLeavesItemAlone ==
    [][ctxDone /\ pc["msg"] \in {"PostMessage", "Publish"} =>
          /\ pc'["msg"] # "Exited"
          /\ send'["msg"].pubErr # Some(ErrContextCanceled)]_vars

\* C30: after the cancellation no new request to /message is taken, and a
\* request in flight is answered as without it: the process does not end
\* under it, and its PUBLISH does not fail for the cancelled context.
C30_CancelLeavesRequestAlone ==
    [][/\ (ctxDone /\ pc["http"] = "Idle" => pc'["http"] \in {"Idle", "Exited"})
       /\ (ctxDone /\ pc["http"] \in {"PostMessage", "Publish", "Responded"} =>
              /\ pc'["http"] # "Exited"
              /\ send'["http"].pubErr # Some(ErrContextCanceled))]_vars

\* The message loop waits for the answer of a call made for the item it holds.
CallOutstanding == pc["msg"] \in {"PostMessage", "Publish"}

\* C31 as stated: while the call for the item in hand is outstanding and the
\* list holds a next item, the loop can pop that item.
C31_Original ==
    Running /\ CallOutstanding /\ msgQueue # <<>> => ENABLED PopMessage

\* C31, amended: while the call for the item in hand is outstanding the loop
\* pops nothing, however many items wait in the list; it can pop the next item
\* once it is back in BLPOP.
C31_SlowCallBlocksNextPop ==
    /\ Running /\ CallOutstanding => ~ENABLED PopMessage
    /\ Running /\ pc["msg"] = "BLPop" /\ msgQueue # <<>> => ENABLED PopMessage

\* Reached: the answer of PostMessage is outstanding while the next item waits
\* in the list.
C31_Witness ==
    /\ main = "serving"
    /\ pc["msg"] = "PostMessage"
    /\ send["msg"].calls # <<>>
    /\ Len(msgQueue) = 1

\* The local state of loop p: the item in hand and what was done for it.
Locals(p) == IF p = "msg" THEN send["msg"] ELSE react

IdleLocals(p) == IF p = "msg" THEN IdleSend ELSE IdleReact

\* C32: a BLPOP that times out or fails leaves the loop between items: the
\* lists are as they were and the loop holds no item and has made no call; a
\* loop that sleeps after a failed BLPOP wakes up at the head of the loop, from
\* where it goes to BLPOP again unless the context is cancelled; neither event
\* stops the loop.
C32_TimeoutAndPopErrorKeepWaiting ==
    /\ [](\A p \in Loops :
             /\ pc[p] \in Waiting => Locals(p) = IdleLocals(p)
             /\ Running /\ pc[p] = "Sleep" => ENABLED Wake(p)
             /\ Running /\ pc[p] = "Select" /\ ~ctxDone => ENABLED Select(p))
    /\ [][\A p \in Loops :
            /\ (pc[p] = "BLPop" /\ pc'[p] \notin Processing \cup {"BLPop"}
                   /\ main' # "exited" =>
                   /\ pc'[p] \in {"Select", "Sleep"}
                   /\ msgQueue' = msgQueue /\ reactQueue' = reactQueue
                   /\ send' = send /\ react' = react)
            /\ (pc[p] = "Sleep" /\ pc'[p] # "Sleep" /\ main' # "exited" =>
                   /\ pc'[p] = "Select"
                   /\ msgQueue' = msgQueue /\ reactQueue' = reactQueue
                   /\ send' = send /\ react' = react)
            /\ (pc[p] = "Select" /\ ~ctxDone /\ pc'[p] # "Select" => pc'[p] = "BLPop")]_vars

\* Reached: the reaction loop sleeps after a failed BLPOP while two items wait
\* in its list and the service is not cancelled.
C32_Witness ==
    /\ main = "serving"
    /\ pc["react"] = "Sleep"
    /\ Len(reactQueue) = 2
    /\ react = IdleReact

\* C33: a loop is in Stopped only after the cancellation, which it saw at the
\* select at the head of an iteration; a stopped loop stays stopped until the
\* process ends, takes nothing from its list and holds no item.
C33_StoppedIsTerminalAndNeedsCancel ==
    /\ [](\A p \in Loops : pc[p] = "Stopped" => ctxDone /\ Locals(p) = IdleLocals(p))
    /\ [][\A p \in Loops :
            /\ (pc[p] # "Stopped" /\ pc'[p] = "Stopped" => pc[p] = "Select" /\ ctxDone)
            /\ (pc[p] = "Stopped" =>
                   /\ pc'[p] \in {"Stopped", "Exited"}
                   /\ Len(Queue(p)') >= Len(Queue(p))
                   /\ Locals(p)' = IdleLocals(p))]_vars

\* Reached: after the cancellation the message loop has stopped with two items
\* left in its list, while the reaction loop still waits for a Slack call.
C33_Witness ==
    /\ main = "cancelled"
    /\ pc["msg"] = "Stopped"
    /\ Len(msgQueue) = 2
    /\ pc["react"] = "Reaction"

\* C34: an item whose text json.Unmarshal rejects ends the iteration at once:
\* nothing was validated (no validation line is logged), no Slack call and no
\* PUBLISH is made, and the loop is at the end of the iteration, from where it
\* goes back to the head of the loop whatever its list holds.
C34_UnparseableItemIsSkipped ==
    /\ [](\A p \in Loops : Running /\ pc[p] = "Continue" => ENABLED Continue(p))
    /\ [][/\ \A raw \in RawMessages :
                ~raw.wellFormed /\ PopMessageOf(raw) =>
                    /\ pc'["msg"] = "Continue"
                    /\ ~send'["msg"].decoded
                    /\ send'["msg"].log = NoLog
                    /\ send'["msg"].calls = <<>>
                    /\ send'["msg"].publishes = <<>>
                    /\ send'["msg"].ret = None
          /\ \A raw \in RawReactions :
                ~raw.wellFormed /\ PopReactionOf(raw) =>
                    /\ pc'["react"] = "Continue"
                    /\ ~react'.decoded
                    /\ react'.log = NoLog
                    /\ react'.calls = <<>>
          /\ \A p \in Loops :
                pc[p] = "Continue" /\ ~Locals(p).decoded /\ pc'[p] # "Continue"
                    /\ main' # "exited" => pc'[p] = "Select"]_vars

\* Reached: the message loop is at the end of an iteration whose item did not
\* parse, with the next item waiting in the list.
C34_Witness ==
    /\ main = "serving"
    /\ pc["msg"] = "Continue"
    /\ ~send["msg"].decoded
    /\ send["msg"] = IdleSend
    /\ Len(msgQueue) = 1

\* The outcome of validation for a PostRequest, as a function of the request
\* alone.
FailureKind(msg) ==
    IF msg.Channel = "" THEN "MissingChannel"
    ELSE IF NoContent(msg) THEN "MissingContent"
    ELSE IF msg.TTL < 0 THEN "InvalidTTL"
    ELSE "Valid"

\* The outcome of validation sender p got for the request it holds.
ValidationOutcome(p) ==
    IF MissingChannel(p) THEN "MissingChannel"
    ELSE IF MissingContent(p) THEN "MissingContent"
    ELSE IF InvalidTTL(p) THEN "InvalidTTL"
    ELSE IF send[p].log = NoLog
            /\ (Finished(p) => RetErr(p) \notin {ErrInvalidMessage, ErrInvalidTTL})
    THEN "Valid"
    ELSE "Undetermined"

\* C35: the outcome of validation is a function of the request alone: at the
\* list and at /message, in whatever state the rest of the service is, a
\* PostRequest gets the outcome its fields determine, and a ReactionRequest is
\* rejected exactly when one of its three fields is empty.  The step that
\* validates changes nothing but the locals of the process that took the
\* request and, for a request of the list, the list it was popped from.
C35_ValidationIsAFunctionOfTheRequest ==
    /\ [](/\ \A p \in Senders :
                send[p].decoded => ValidationOutcome(p) = FailureKind(send[p].msg)
          /\ react.decoded =>
                (react.log = LogReactionFields <=> InvalidReaction(react.msg)))
    /\ [][/\ \A p \in Senders :
                ~send[p].decoded /\ send'[p].decoded =>
                    /\ main' = main /\ listening' = listening /\ health' = health
                    /\ react' = react /\ reactQueue' = reactQueue
                    /\ \A q \in Procs \ {p} : pc'[q] = pc[q]
                    /\ \A q \in Senders \ {p} : send'[q] = send[q]
                    /\ IF p = "http" THEN msgQueue' = msgQueue
                       ELSE msgQueue' = Tail(msgQueue) /\ response' = response
          /\ (~react.decoded /\ react'.decoded =>
                    /\ main' = main /\ listening' = listening /\ health' = health
                    /\ send' = send /\ msgQueue' = msgQueue /\ response' = response
                    /\ reactQueue' = Tail(reactQueue)
                    /\ \A q \in Procs \ {"react"} : pc'[q] = pc[q])]_vars

\* Reached: the HTTP handler has rejected a request without channel and with a
\* negative ttl as MissingChannel, after the cancellation.
C35_Witness ==
    /\ main = "cancelled"
    /\ pc["http"] = "Responded"
    /\ send["http"].decoded
    /\ send["http"].msg.Channel = "" /\ send["http"].msg.TTL < 0
    /\ ValidationOutcome("http") = "MissingChannel"

\* What the claims say of the options of a PostMessage call, the blocks apart:
\* link unfurling is disabled, and text, thread timestamp and metadata are set
\* to the values of the request exactly when the request has them.
OptionsAsRequested(call, msg) ==
    /\ call.channel = msg.Channel
    /\ call.options.DisableLinkUnfurl
    /\ call.options.Text = (IF msg.Text # "" THEN Some(msg.Text) ELSE None)
    /\ call.options.TS = (IF msg.ThreadTS # "" THEN Some(msg.ThreadTS) ELSE None)
    /\ (call.options.Metadata # None <=> msg.Metadata # None)
    /\ msg.Metadata # None =>
          /\ call.options.Metadata[1].EventType = msg.Metadata[1].EventType
          /\ call.options.Metadata[1].EventPayload = msg.Metadata[1].EventPayload

\* C36 as stated: every PostMessage call goes to the channel of the request
\* with link unfurling disabled, with text, thread timestamp and metadata
\* exactly when the request has them, and with blocks exactly when the blocks
\* payload is present.
C36_Original ==
    \A p \in Senders : \A i \in DOMAIN send[p].calls :
        /\ OptionsAsRequested(send[p].calls[i], send[p].msg)
        /\ send[p].calls[i].options.Blocks # None <=> Len(send[p].msg.Blocks) > 0

\* C36, amended: as stated, except that the call has blocks exactly when the
\* blocks payload is present and holds at least one block; they are the blocks
\* of the payload.
C36_OptionsFollowTheRequest ==
    \A p \in Senders : \A i \in DOMAIN send[p].calls :
        /\ OptionsAsRequested(send[p].calls[i], send[p].msg)
        /\ send[p].calls[i].options.Blocks # None <=>
              /\ Len(send[p].msg.Blocks) > 0
              /\ UnmarshalBlocks(send[p].msg.Blocks).BlockSet # <<>>
        /\ send[p].calls[i].options.Blocks # None =>
              send[p].calls[i].options.Blocks[1] = UnmarshalBlocks(send[p].msg.Blocks).BlockSet

\* Reached: a request with text, an empty block array, a thread timestamp and
\* metadata was posted with text, thread and metadata, and without blocks.
C36_Witness ==
    /\ pc["http"] = "PostMessage"
    /\ send["http"].msg.Text # ""
    /\ send["http"].msg.Blocks = <<"[", "]">>
    /\ send["http"].msg.ThreadTS # ""
    /\ send["http"].msg.Metadata # None
    /\ Len(send["http"].calls) = 1
    /\ send["http"].calls[1].options.Blocks = None
    /\ send["http"].calls[1].options.TS # None
    /\ send["http"].calls[1].options.Metadata # None

\* C37: every PostMessage call carries a text or at least one block.
C37_PostedMessageHasContent ==
    \A p \in Senders : \A i \in DOMAIN send[p].calls :
        \/ /\ send[p].calls[i].options.Text # None
           /\ send[p].calls[i].options.Text[1] # ""
        \/ /\ send[p].calls[i].options.Blocks # None
           /\ Len(send[p].calls[i].options.Blocks[1]) > 0

\* Loop p cannot take its next step by itself: it waits for a Slack call or a
\* PUBLISH to answer, or sleeps after a failed BLPOP.
Stalled(p) == pc[p] \in {"PostMessage", "Publish", "Reaction", "Sleep"}

\* The next step of loop p is possible.
CanStep(p) ==
    /\ pc[p] = "Select" => ENABLED Select(p)
    /\ pc[p] = "BLPop" /\ Queue(p) = <<>> => ENABLED PopTimeout(p)
    /\ pc[p] = "BLPop" /\ msgQueue # <<>> /\ p = "msg" => ENABLED PopMessage
    /\ pc[p] = "BLPop" /\ reactQueue # <<>> /\ p = "react" => ENABLED PopReaction
    /\ pc[p] = "PostMessage" => ENABLED PostMessageReturn("msg")
    /\ pc[p] = "Publish" => ENABLED PublishReturn("msg")
    /\ pc[p] = "Reaction" => ENABLED ReactionReturn
    /\ pc[p] = "Continue" => ENABLED Continue(p)
    /\ pc[p] = "Sleep" => ENABLED Wake(p)

\* C38: as long as the process runs, each loop can take its next step (select,
\* pop, the return of its call, the end of its iteration) wherever the other
\* loop is, and a step of one loop leaves the position, the locals and the
\* list of the other as they are.
C38_LoopsAreIndependent ==
    /\ [](Running => \A p \in Loops : CanStep(p))
    /\ [][/\ (pc'["msg"] # pc["msg"] /\ main' = main =>
                /\ pc'["react"] = pc["react"]
                /\ react' = react
                /\ reactQueue' = reactQueue)
          /\ (pc'["react"] # pc["react"] /\ main' = main =>
                /\ pc'["msg"] = pc["msg"]
                /\ send' = send
                /\ msgQueue' = msgQueue)]_vars

\* Reached: the reaction loop has taken an item and made its call while the
\* message loop waits for the answer of PostMessage; items wait in both lists.
C38_Witness ==
    /\ main = "serving"
    /\ pc["msg"] = "PostMessage"
    /\ Stalled("msg")
    /\ pc["react"] = "Continue"
    /\ react.calls # <<>>
    /\ react.err = Some(Nil)
    /\ Len(reactQueue) = 1
    /\ Len(msgQueue) = 1

\* Item id waits in list q.
InList(q, id) == \E i \in DOMAIN q : q[i] = id

\* C39: in a service that runs and is never cancelled, every item that waits
\* in the message list or in the reaction list is eventually taken from it,
\* and the iteration that took an item eventually ends.  An item is taken by
\* the pop of its own loop, from the head of the list, and that step decodes it
\* and makes at most one Slack call for it; no step puts an item back.
C39_EveryItemIsProcessedOnce ==
    /\ \A id \in 1..(MaxQueued + 1) :
          /\ (main = "serving" /\ InList(msgQueue, id)) ~> ~InList(msgQueue, id)
          /\ (main = "serving" /\ InList(reactQueue, id)) ~> ~InList(reactQueue, id)
    /\ \A p \in Loops : (pc[p] \in Processing) ~> (pc[p] = "Select")
    /\ [](Len(send["msg"].calls) <= 1 /\ Len(react.calls) <= 1)
    /\ [][/\ (msgQueue' # msgQueue =>
                \/ /\ msgQueue # <<>> /\ msgQueue' = Tail(msgQueue)
                   /\ pc["msg"] = "BLPop" /\ pc'["msg"] \in Processing
                \/ \E id \in 1..(MaxQueued + 1) :
                      ~InList(msgQueue, id) /\ msgQueue' = Append(msgQueue, id) /\ pc' = pc)
          /\ (reactQueue' # reactQueue =>
                \/ /\ reactQueue # <<>> /\ reactQueue' = Tail(reactQueue)
                   /\ pc["react"] = "BLPop" /\ pc'["react"] \in Processing
                \/ \E id \in 1..(MaxQueued + 1) :
                      ~InList(reactQueue, id) /\ reactQueue' = Append(reactQueue, id)
                      /\ pc' = pc)]_vars

\* Reached: the message loop is at the end of an iteration that posted and
\* published, with items 3 and 1 waiting behind it, while the reaction loop
\* sleeps after a failed BLPOP with items 2 and 3 in its list.
C39_Witness ==
    /\ main = "serving"
    /\ pc["msg"] = "Continue"
    /\ Len(send["msg"].calls) = 1
    /\ Len(send["msg"].publishes) = 1
    /\ msgQueue = <<3, 1>>
    /\ pc["react"] = "Sleep"
    /\ reactQueue = <<2, 3>>

\* The response to a request to /message, from the request (its method, whether
\* its body parses, the message the body holds) and from the answer to its own
\* PostMessage call alone: postErr is the error of the call, reply its answer.
ResponseFor(req, msg, postErr, reply) ==
    IF req.method # "POST"
    THEN HTTPError("Method not allowed", StatusMethodNotAllowed)
    ELSE IF ~req.bodyIsJSON
    THEN HTTPError("Invalid JSON payload", StatusBadRequest)
    ELSE IF FailureKind(msg) \in {"MissingChannel", "MissingContent"}
    THEN HTTPError(ErrInvalidMessage, StatusBadRequest)
    ELSE IF FailureKind(msg) = "InvalidTTL"
    THEN HTTPError(ErrInvalidTTL, StatusBadRequest)
    ELSE IF BlocksUnparseable(msg) \/ postErr # Nil
    THEN HTTPError("Failed to send message to Slack", StatusInternalServerError)
    ELSE [status |-> StatusOK, contentType |-> "application/json",
          body |-> <<"channel", reply.channelID, "ts", reply.timestamp>>]

\* The error of the PostMessage call of the handler (Nil: none, or no call).
OwnPostErr ==
    IF send["http"].calls # <<>> /\ send["http"].ret # None /\ send["http"].reply = None
    THEN send["http"].ret[1].err
    ELSE Nil

====
